---- MODULE Spec2Model ----
(***************************************************************************)
(* Message-delivery governance of yral-ai-chat:                            *)
(*   - the rate limiter   (src/src/middleware/rate_limit.rs)               *)
(*   - the WebSocket hub  (src/src/services/websocket.rs)                  *)
(*   - send_message       (src/src/routes/chat.rs, message_repository.rs)  *)
(* Each part has its own specification over its own variables; the other   *)
(* parts' variables stay unchanged under it.                               *)
(***************************************************************************)
EXTENDS Integers, Sequences, FiniteSets, TLC

VARIABLES
    now,          \* Instant::now(), in whole seconds
    ticks,        \* number of clock advances so far (bounds the run)
    buckets,      \* RateLimitState.buckets : identifier -> Buckets | NoEntry
    held,         \* identifier -> the task holding the DashMap RefMut of its entry
    last_cleanup, \* RateLimitState.last_cleanup
    req,          \* per task: the request in progress in RateLimitService::call
    calls,        \* number of requests that entered the limiter (bounds the run)
    allowTimes,   \* history: identifier -> times of the admitted requests
    credited,     \* history: identifier -> window -> token units added by refill
    connections,  \* WsManager.connections : user id -> Vec<Connection> (or no key)
    CONN_COUNTER, \* the static connection id counter
    cstate,       \* per connection id: where its connect / session / disconnect stands
    cuser,        \* per connection id: the user id it was opened for
    rxOpen,       \* per connection id: the receiver of its channel is alive
    inbox,        \* per connection id: the messages sent into its channel
    pstate,       \* per publishing task: where its send_to_user stands
    published,    \* history: the publishes so far, <<user id>> by event number
    messages,     \* the messages table, rows in insertion order; a row's id is its index
    dbNow,        \* the database clock, whole seconds
    influencer,   \* the influencer row the conversations point to
    sreq,         \* per send_message task: its request, position and locals
    sends,        \* send_message requests started so far
    firstPair,    \* history: (conversation, clientMessageId) -> pair of the first completed send
    convMemories, \* conversations.metadata["memories"], per conversation
    bg,           \* the spawned background continuations and how far each has come
    session       \* the latest ws_inbox call: path user id, token, close code or session

rateVars == <<now, ticks, buckets, held, last_cleanup, req, calls, allowTimes,
              credited>>

wsVars == <<connections, CONN_COUNTER, cstate, cuser, rxOpen, inbox, pstate, published>>

sendVars == <<messages, dbNow, influencer, sreq, sends, firstPair, convMemories, bg>>

authVars == <<session>>

vars == <<rateVars, wsVars, sendVars, authVars>>

\* what the rate limiter, the WsManager and send_message each never touch
outsideRate == <<wsVars, sendVars, authVars>>
outsideWs   == <<rateVars, sendVars, authVars>>
outsideSend == <<rateVars, wsVars, authVars>>

(***************************************************************************)
(* Bounds of the model.                                                    *)
(***************************************************************************)
PerMinute == 2        \* rate_limit_per_minute (configuration)
PerHour   == 3        \* rate_limit_per_hour   (configuration)
MaxTicks  == 2        \* clock advances per run
MaxCalls  == 4        \* requests per run
MaxConns  == 3        \* connections opened per run
MaxPublishes == 2     \* events published per run
MaxSends  == 3        \* send_message requests per run
MaxDbTicks == 1       \* seconds the database clock advances per run

(***************************************************************************)
(* Program constants.                                                      *)
(***************************************************************************)
MinuteSeconds    == 60
HourSeconds      == 3600
CleanupInterval  == 300
RetentionSeconds == 3600

Tasks      == {"t1", "t2"}
Ids        == {"ip:1.2.3.4", "ip:unknown"}
Windows    == {"minute", "hour"}
NoEntry    == [absent |-> TRUE]
NoTask     == "no_task"
NoResp     == [kind |-> "none"]
\* no path is excluded
ExcludedNone == {}

EXCLUDED_PATHS == {"/", "/health", "/status"}
Paths      == {"/health", "/api/v1/influencers"}

Min(a, b) == IF a <= b THEN a ELSE b
Max(a, b) == IF a >= b THEN a ELSE b

(***************************************************************************)
(* TokenBucket.  tokens is an f64 in the source; here it is a whole number *)
(* of token units, TokenUnit units to the token, so that a refill over a   *)
(* whole number of seconds is exact for both windows.                      *)
(***************************************************************************)
TokenUnit == HourSeconds

Capacity(w)   == IF w = "minute" THEN PerMinute * TokenUnit ELSE PerHour * TokenUnit
\* token units per second: capacity / 60 and capacity / 3600
RefillRate(w) == IF w = "minute" THEN PerMinute * (TokenUnit \div MinuteSeconds)
                                 ELSE PerHour * (TokenUnit \div HourSeconds)
Limit(w)      == IF w = "minute" THEN PerMinute ELSE PerHour

\* TokenBucket::new
NewBucket(w, t) == [tokens |-> Capacity(w), last_refill |-> t]

\* a refill that forgets the cap
RefillUncapped(b, w, t) ==
    [tokens      |-> b.tokens + (t - b.last_refill) * RefillRate(w),
     last_refill |-> t]

\* TokenBucket::refill
Refill(b, w, t) ==
    [tokens      |-> Min(b.tokens + (t - b.last_refill) * RefillRate(w), Capacity(w)),
     last_refill |-> t]

\* a consume that needs more than one whole token
ConsumeOkStrict(b, w, t) == Refill(b, w, t).tokens > TokenUnit

\* a consume that takes the token whether or not there is one
ConsumeAlways(b, w, t) ==
    LET r == Refill(b, w, t)
    IN  [r EXCEPT !.tokens = r.tokens - TokenUnit]

\* TokenBucket::consume: whether it returns true, and the bucket after the call
ConsumeOk(b, w, t) == Refill(b, w, t).tokens >= TokenUnit

ConsumeAfter(b, w, t) ==
    LET r == Refill(b, w, t)
    IN  IF r.tokens >= TokenUnit THEN [r EXCEPT !.tokens = r.tokens - TokenUnit] ELSE r

\* a hint of one second, whatever is missing from the bucket
RetryAfterOneSecond(b, w) == IF b.tokens >= TokenUnit THEN 0 ELSE 1

\* TokenBucket::retry_after: ceil(needed / refill_rate) + 1
RetryAfter(b, w) ==
    IF b.tokens >= TokenUnit THEN 0
    ELSE ((TokenUnit - b.tokens) + RefillRate(w) - 1) \div RefillRate(w) + 1

\* TokenBucket::remaining
Remaining(b) == Max(b.tokens, 0) \div TokenUnit

\* a per-hour denial that keeps the minute token
RefundNone(b) == b

\* the refund of the minute token in RateLimitService::call
Refund(b) == [b EXCEPT !.tokens = b.tokens + TokenUnit]

\* RateLimitState::get_or_create: the entry of key, created full when absent
GetOrCreateEntry(bs, key, t) ==
    IF bs[key] = NoEntry
    THEN [minute |-> NewBucket("minute", t), hour |-> NewBucket("hour", t)]
    ELSE bs[key]

\* an entry handed out without waiting for its holder
EntryAlwaysFree(key) == TRUE

\* the DashMap entry of key can be borrowed mutably when no task holds it
EntryFree(key) == held[key] = NoTask

(***************************************************************************)
(* The limiter's clock.                                                    *)
(***************************************************************************)
\* Steps of the clock: one second and the time in which the minute bucket gains one
\* token; for a client observed alone also a whole minute window and the time in
\* which the hour bucket gains one token.
Elapse     == {1, MinuteSeconds \div PerMinute}
LongElapse == {1, MinuteSeconds \div PerMinute, MinuteSeconds, HourSeconds \div PerHour}

\* Between get_or_create and drop(entry) there is no suspension point: the section
\* takes far less than the clock's resolution, so the clock does not advance
\* while an entry is held.
Advance(choices) ==
    /\ ticks < MaxTicks
    /\ \A k \in Ids : held[k] = NoTask
    /\ \E d \in choices : now' = now + d
    /\ ticks' = ticks + 1
    /\ UNCHANGED <<buckets, held, last_cleanup, req, calls, allowTimes, credited, outsideRate>>

Tick     == Advance(Elapse)
LongTick == Advance(LongElapse)

\* stretches of time long enough for a sweep to be due and an entry to go stale
IdleElapse == {1, CleanupInterval, RetentionSeconds + 1}
IdleTick   == Advance(IdleElapse)

NoBucket == [tokens |-> 0, last_refill |-> 0]
\* retry: the window of the denial this request is the retry of, if any
Idle == [pc |-> "idle", ident |-> "", path |-> "", seen |-> NoBucket, resp |-> NoResp,
         retry |-> "none"]

\* RateLimitState::cleanup.  Its "now" is Instant::now() minus (Instant::now() - 1 s),
\* in whole seconds: 1 when both readings of the clock agree, 0 otherwise.
CleanupNow == {0, 1}

CleanupDue(approx, last) == Max(approx - last, 0) >= CleanupInterval

\* self.buckets.retain(...): an entry stays when either bucket was refilled
\* after the threshold
Retain(bs, t) ==
    [k \in Ids |->
       IF /\ bs[k] # NoEntry
          /\ held[k] = NoTask
          /\ ~ (\/ bs[k].minute.last_refill > t - RetentionSeconds
                \/ bs[k].hour.last_refill > t - RetentionSeconds)
       THEN NoEntry ELSE bs[k]]

AfterCleanup(bs, last, approx, t) ==
    IF CleanupDue(approx, last) THEN [last |-> approx, bs |-> Retain(bs, t)]
                                ELSE [last |-> last, bs |-> bs]

\* RateLimitService::call up to and including get_or_create: the path test, the
\* identifier, the cleanup at the head of the async block, and the mutable borrow
\* of the identifier's entry, which waits until no other task holds it.  A
\* request for an excluded path goes straight to the inner service.
Arrive(t) ==
    /\ req[t].pc = "idle"
    /\ calls < MaxCalls
    /\ calls' = calls + 1
    /\ UNCHANGED <<now, ticks, allowTimes, credited, outsideRate>>
    /\ \E id \in Ids, p \in Paths :
         IF p \in EXCLUDED_PATHS
         THEN /\ req' = [req EXCEPT ![t] = [Idle EXCEPT !.pc = "forward", !.ident = id,
                                                        !.path = p]]
              /\ UNCHANGED <<last_cleanup, buckets, held>>
         ELSE /\ EntryFree(id)
              /\ \E approx \in CleanupNow :
                   LET c == AfterCleanup(buckets, last_cleanup, approx, now)
                       e == GetOrCreateEntry(c.bs, id, now)
                   IN  /\ last_cleanup' = c.last
                       /\ buckets' = [c.bs EXCEPT ![id] = e]
                       /\ req' = [req EXCEPT ![t] = [Idle EXCEPT !.pc = "minute",
                                                      !.ident = id, !.path = p,
                                                      !.seen = e.minute]]
              /\ held' = [held EXCEPT ![id] = t]

Added(b, w, t) == Refill(b, w, t).tokens - b.tokens

\* a denial that reports the per-minute limit whatever the window
DenyMinuteLimit(w, b) ==
    [kind |-> "deny", status |-> 429,
     limit_type |-> IF w = "minute" THEN "per_minute" ELSE "per_hour",
     limit |-> Limit("minute"), retry_after |-> RetryAfter(b, w),
     header_retry_after |-> RetryAfter(b, w), headers |-> {"Retry-After"},
     forwarded |-> FALSE]

\* rate_limit_response(retry_after, limit_type, limit), returned without calling inner
Deny(w, b) ==
    [kind |-> "deny", status |-> 429,
     limit_type |-> IF w = "minute" THEN "per_minute" ELSE "per_hour",
     limit |-> Limit(w), retry_after |-> RetryAfter(b, w),
     header_retry_after |-> RetryAfter(b, w), headers |-> {"Retry-After"},
     forwarded |-> FALSE]

\* if !entry.minute.consume() { ... return 429 per_minute }
MinuteConsume(t) ==
    LET id == req[t].ident
        b  == buckets[id].minute
        a  == ConsumeAfter(b, "minute", now)
        ok == ConsumeOk(b, "minute", now)
    IN  /\ req[t].pc = "minute"
        /\ buckets' = [buckets EXCEPT ![id].minute = a]
        /\ credited' = [credited EXCEPT ![id].minute = @ + Added(b, "minute", now)]
        /\ IF ok
           THEN /\ req' = [req EXCEPT ![t].pc = "hour"]
                /\ UNCHANGED held
           ELSE /\ req' = [req EXCEPT ![t].pc = "respond", ![t].resp = Deny("minute", a)]
                /\ held' = [held EXCEPT ![id] = NoTask]
        /\ UNCHANGED <<now, ticks, last_cleanup, calls, allowTimes, outsideRate>>

\* if !entry.hour.consume() { refund; return 429 per_hour }, else the request is
\* admitted and the remaining counts are read before the entry is dropped
HourConsume(t) ==
    LET id == req[t].ident
        b  == buckets[id].hour
        a  == ConsumeAfter(b, "hour", now)
        ok == ConsumeOk(b, "hour", now)
    IN  /\ req[t].pc = "hour"
        /\ credited' = [credited EXCEPT ![id].hour = @ + Added(b, "hour", now)]
        /\ held' = [held EXCEPT ![id] = NoTask]
        /\ IF ok
           THEN /\ buckets' = [buckets EXCEPT ![id].hour = a]
                /\ req' = [req EXCEPT ![t].pc = "forward",
                              ![t].resp = [kind |-> "admitted",
                                           rem_minute |-> Remaining(buckets[id].minute),
                                           rem_hour |-> Remaining(a)]]
                /\ allowTimes' = [allowTimes EXCEPT ![id] = Append(@, now)]
           ELSE /\ buckets' = [buckets EXCEPT ![id].hour = a,
                                              ![id].minute = Refund(buckets[id].minute)]
                /\ req' = [req EXCEPT ![t].pc = "respond", ![t].resp = Deny("hour", a)]
                /\ UNCHANGED allowTimes
        /\ UNCHANGED <<now, ticks, last_cleanup, calls, outsideRate>>

\* inner.call(req).await, and the X-RateLimit-* headers of an admitted request
Forward(t) ==
    /\ req[t].pc = "forward"
    /\ req' = [req EXCEPT ![t].pc = "respond",
                  ![t].resp =
                     IF req[t].path \in EXCLUDED_PATHS
                     THEN [kind |-> "bypass", status |-> 200, forwarded |-> TRUE,
                           headers |-> {}]
                     ELSE [kind |-> "allow", status |-> 200, forwarded |-> TRUE,
                           headers |-> {"X-RateLimit-Limit-Minute", "X-RateLimit-Limit-Hour",
                                        "X-RateLimit-Remaining-Minute",
                                        "X-RateLimit-Remaining-Hour"},
                           limit_minute |-> Limit("minute"), limit_hour |-> Limit("hour"),
                           rem_minute |-> req[t].resp.rem_minute,
                           rem_hour |-> req[t].resp.rem_hour]]
    /\ UNCHANGED <<now, ticks, buckets, held, last_cleanup, calls, allowTimes, credited, outsideRate>>

\* the response leaves the service
Return(t) ==
    /\ req[t].pc = "respond"
    /\ req' = [req EXCEPT ![t] = Idle]
    /\ UNCHANGED <<now, ticks, buckets, held, last_cleanup, calls, allowTimes, credited, outsideRate>>

\* the client of a denied request waits for as long as the response told it to
RetryWait(t) ==
    /\ req[t].pc = "respond"
    /\ req[t].resp.kind = "deny"
    /\ calls <= MaxCalls
    /\ \A k \in Ids : held[k] = NoTask
    /\ now' = now + req[t].resp.retry_after
    /\ req' = [req EXCEPT ![t].pc = "retry"]
    /\ UNCHANGED <<ticks, buckets, held, last_cleanup, calls, allowTimes, credited, outsideRate>>

\* and sends the request again: RateLimitService::call up to and including
\* get_or_create, for the identifier of the denied request
RetryArrive(t) ==
    LET id == req[t].ident
    IN  /\ req[t].pc = "retry"
        /\ EntryFree(id)
        /\ calls' = calls + 1
        /\ \E approx \in CleanupNow :
              LET c == AfterCleanup(buckets, last_cleanup, approx, now)
                  e == GetOrCreateEntry(c.bs, id, now)
              IN  /\ last_cleanup' = c.last
                  /\ buckets' = [c.bs EXCEPT ![id] = e]
                  /\ req' = [req EXCEPT ![t] = [Idle EXCEPT !.pc = "minute",
                                                 !.ident = id, !.path = req[t].path,
                                                 !.seen = e.minute,
                                                 !.retry = req[t].resp.limit_type]]
        /\ held' = [held EXCEPT ![id] = t]
        /\ UNCHANGED <<now, ticks, allowTimes, credited, outsideRate>>

RateInit ==
    /\ now = 0
    /\ ticks = 0
    /\ buckets = [k \in Ids |-> NoEntry]
    /\ held = [k \in Ids |-> NoTask]
    /\ last_cleanup = 0
    /\ req = [t \in Tasks |-> Idle]
    /\ calls = 0
    /\ allowTimes = [k \in Ids |-> <<>>]
    /\ credited = [k \in Ids |-> [w \in Windows |-> 0]]

RateNext ==
    \/ Tick
    \/ \E t \in Tasks : Arrive(t)
    \/ \E t \in Tasks : MinuteConsume(t)
    \/ \E t \in Tasks : HourConsume(t)
    \/ \E t \in Tasks : Forward(t)
    \/ \E t \in Tasks : Return(t)

\* one client task observed alone, over longer stretches of time
FirstTask == CHOOSE t \in Tasks : TRUE

RateSeqNext ==
    \/ LongTick
    \/ Arrive(FirstTask)
    \/ MinuteConsume(FirstTask)
    \/ HourConsume(FirstTask)
    \/ Forward(FirstTask)
    \/ Return(FirstTask)

\* one client task observed alone, which may retry a denied request after the
\* time the denial named
RateRetryNext ==
    \/ LongTick
    \/ Arrive(FirstTask)
    \/ MinuteConsume(FirstTask)
    \/ HourConsume(FirstTask)
    \/ Forward(FirstTask)
    \/ Return(FirstTask)
    \/ RetryWait(FirstTask)
    \/ RetryArrive(FirstTask)

\* one client task observed alone, over stretches of idle time
RateIdleNext ==
    \/ IdleTick
    \/ Arrive(FirstTask)
    \/ MinuteConsume(FirstTask)
    \/ HourConsume(FirstTask)
    \/ Forward(FirstTask)
    \/ Return(FirstTask)

(***************************************************************************)
(* WsManager (src/src/services/websocket.rs).  A connect, a disconnect and  *)
(* a send_to_user each run in a task of their own.  One DashMap access      *)
(* (entry().or_default().push, or get_mut .. drop(conns), or remove) is one *)
(* step: the shard lock is held across it and nothing suspends inside.      *)
(***************************************************************************)
Users    == {"u1", "u2"}
ConnIds  == 0..(MaxConns - 1)
PubTasks == {"p1"}
NoKey    == [present |-> FALSE, conns |-> <<>>]
PIdle    == [pc |-> "idle", user |-> ""]

Range(q) == {q[i] : i \in 1..Len(q)}

\* the Vec of a user, empty when the key is absent (or_default)
ConnsOf(u) == connections[u].conns

Registered(c) == \E u \in Users : connections[u].present /\ c \in Range(ConnsOf(u))

\* a channel send that never reports failure
SendAlwaysOk(c) == TRUE

\* sender.send(..).is_ok(): the send succeeds while the receiver is alive
SendOk(c) == rxOpen[c]

\* a publish that reaches every connection of every user
TargetsEveryone(u) ==
    {c \in ConnIds : \E v \in Users : c \in Range(ConnsOf(v)) /\ SendOk(c)}

\* the connections send_to_user(u, ..) sends to with success
Targets(u) ==
    IF connections[u].present THEN {c \in Range(ConnsOf(u)) : SendOk(c)} ELSE {}

\* connect: CONN_COUNTER.fetch_add(1) and the channel
ConnectAlloc(u) ==
    /\ CONN_COUNTER < MaxConns
    /\ cstate[CONN_COUNTER] = "unused"
    /\ cstate' = [cstate EXCEPT ![CONN_COUNTER] = "allocated"]
    /\ cuser' = [cuser EXCEPT ![CONN_COUNTER] = u]
    /\ rxOpen' = [rxOpen EXCEPT ![CONN_COUNTER] = TRUE]
    /\ CONN_COUNTER' = CONN_COUNTER + 1
    /\ UNCHANGED <<connections, inbox, pstate, published, outsideWs>>

\* connect: entry(user_id).or_default().push(Connection { id, sender }); return
ConnectPush(c) ==
    /\ cstate[c] = "allocated"
    /\ connections' = [connections EXCEPT ![cuser[c]] =
                          [present |-> TRUE, conns |-> Append(ConnsOf(cuser[c]), c)]]
    /\ cstate' = [cstate EXCEPT ![c] = "live"]
    /\ UNCHANGED <<CONN_COUNTER, cuser, rxOpen, inbox, pstate, published, outsideWs>>

\* a disconnect whose retain keeps every connection of the user
DisconnectKeepsAll(c) ==
    LET u    == cuser[c]
        kept == ConnsOf(u)
    IN  /\ cstate[c] = "live"
        /\ IF connections[u].present
           THEN /\ connections' = [connections EXCEPT ![u].conns = kept]
                /\ cstate' = [cstate EXCEPT ![c] =
                                IF kept = <<>> THEN "removing" ELSE "closed"]
           ELSE /\ UNCHANGED connections
                /\ cstate' = [cstate EXCEPT ![c] = "closed"]
        /\ UNCHANGED <<CONN_COUNTER, cuser, rxOpen, inbox, pstate, published, outsideWs>>

\* disconnect(user_id, conn_id), called by the session that owns conn_id:
\* get_mut, retain, is_empty, drop(conns)
Disconnect(c) ==
    LET u    == cuser[c]
        kept == SelectSeq(ConnsOf(u), LAMBDA d : d # c)
    IN  /\ cstate[c] = "live"
        /\ IF connections[u].present
           THEN /\ connections' = [connections EXCEPT ![u].conns = kept]
                /\ cstate' = [cstate EXCEPT ![c] =
                                IF kept = <<>> THEN "removing" ELSE "closed"]
           ELSE /\ UNCHANGED connections
                /\ cstate' = [cstate EXCEPT ![c] = "closed"]
        /\ UNCHANGED <<CONN_COUNTER, cuser, rxOpen, inbox, pstate, published, outsideWs>>

\* disconnect: self.connections.remove(user_id), after the guard was dropped
DisconnectRemove(c) ==
    /\ cstate[c] = "removing"
    /\ connections' = [connections EXCEPT ![cuser[c]] = NoKey]
    /\ cstate' = [cstate EXCEPT ![c] = "closed"]
    /\ UNCHANGED <<CONN_COUNTER, cuser, rxOpen, inbox, pstate, published, outsideWs>>

\* the session's task ends without reaching disconnect (cancelled or panicked):
\* its receiver is dropped while the connection is still registered
SessionAbort(c) ==
    /\ cstate[c] = "live"
    /\ cstate' = [cstate EXCEPT ![c] = "aborted"]
    /\ rxOpen' = [rxOpen EXCEPT ![c] = FALSE]
    /\ UNCHANGED <<connections, CONN_COUNTER, cuser, inbox, pstate, published, outsideWs>>

\* send_to_user(user_id, message): get_mut, retain(send is ok), is_empty, drop(conns)
SendRetain(p, u) ==
    LET m    == Len(published) + 1
        kept == SelectSeq(ConnsOf(u), SendOk)
    IN  /\ pstate[p].pc = "idle"
        /\ Len(published) < MaxPublishes
        /\ published' = Append(published, u)
        /\ inbox' = [c \in ConnIds |->
                       IF c \in Targets(u) THEN Append(inbox[c], m) ELSE inbox[c]]
        /\ IF connections[u].present
           THEN /\ connections' = [connections EXCEPT ![u].conns = kept]
                /\ pstate' = [pstate EXCEPT ![p] =
                                IF kept = <<>> THEN [pc |-> "removing", user |-> u]
                                ELSE PIdle]
           ELSE UNCHANGED <<connections, pstate>>
        /\ UNCHANGED <<CONN_COUNTER, cstate, cuser, rxOpen, outsideWs>>

\* send_to_user: self.connections.remove(user_id), after the guard was dropped
SendRemove(p) ==
    /\ pstate[p].pc = "removing"
    /\ connections' = [connections EXCEPT ![pstate[p].user] = NoKey]
    /\ pstate' = [pstate EXCEPT ![p] = PIdle]
    /\ UNCHANGED <<CONN_COUNTER, cstate, cuser, rxOpen, inbox, published, outsideWs>>

\* WsManager::new
WsInit ==
    /\ connections = [u \in Users |-> NoKey]
    /\ CONN_COUNTER = 0
    /\ cstate = [c \in ConnIds |-> "unused"]
    /\ cuser = [c \in ConnIds |-> ""]
    /\ rxOpen = [c \in ConnIds |-> FALSE]
    /\ inbox = [c \in ConnIds |-> <<>>]
    /\ pstate = [p \in PubTasks |-> PIdle]
    /\ published = <<>>

(***************************************************************************)
(* ws_inbox (src/src/routes/websocket.rs): the token of the query string is *)
(* checked before handle_socket, and with it WsManager::connect, is         *)
(* reached.  decode_jwt (src/src/middleware/auth.rs) is modelled by its     *)
(* result on the tokens below.                                              *)
(***************************************************************************)
EXPECTED_ISSUERS == {"https://auth.yral.com", "https://auth.dolr.ai"}

\* tokens: the ?token= parameter, absent, empty, not a JWT, or a JWT with its
\* sub and iss claims and whether its exp claim has passed
Token(form, sub, iss, expired) ==
    [form |-> form, sub |-> sub, iss |-> iss, expired |-> expired]
NoToken == Token("absent", "", "", FALSE)
Jwt(sub, iss, expired) == Token("jwt", sub, iss, expired)
Tokens ==
    { NoToken, Token("empty", "", "", FALSE), Token("garbage", "", "", FALSE),
      Jwt("u1", "https://auth.yral.com", FALSE), Jwt("u2", "https://auth.dolr.ai", FALSE),
      Jwt("u1", "https://auth.yral.com", TRUE), Jwt("u1", "https://evil.example", FALSE),
      Jwt("", "https://auth.yral.com", FALSE) }

\* decode_jwt is Ok: a JWT with exp not passed, an expected iss and a sub
DecodeOk(tok) ==
    /\ tok.form = "jwt"
    /\ ~tok.expired
    /\ tok.iss \in EXPECTED_ISSUERS
    /\ tok.sub # ""

NoSession == [path |-> "", token |-> NoToken, outcome |-> "none", code |-> 0, reason |-> ""]

\* the upgraded socket is sent a close frame and dropped
CloseWith(u, tok, code, reason) ==
    /\ session' = [path |-> u, token |-> tok, outcome |-> "closed", code |-> code,
                   reason |-> reason]
    /\ UNCHANGED <<wsVars, rateVars, sendVars>>

\* ws_inbox without the comparison of the subject with the path
WsInboxAnySubject(u, tok) ==
    IF tok.form \in {"absent", "empty"}
    THEN CloseWith(u, tok, 4001, "Missing authentication token")
    ELSE IF ~DecodeOk(tok)
    THEN CloseWith(u, tok, 4001, "Invalid or expired token")
    ELSE /\ CONN_COUNTER < MaxConns
         /\ cstate[CONN_COUNTER] = "unused"
         /\ cstate' = [cstate EXCEPT ![CONN_COUNTER] = "allocated"]
         /\ cuser' = [cuser EXCEPT ![CONN_COUNTER] = u]
         /\ rxOpen' = [rxOpen EXCEPT ![CONN_COUNTER] = TRUE]
         /\ CONN_COUNTER' = CONN_COUNTER + 1
         /\ session' = [path |-> u, token |-> tok, outcome |-> "session", code |-> 0,
                        reason |-> ""]
         /\ UNCHANGED <<connections, inbox, pstate, published, rateVars, sendVars>>

\* ws_inbox(user_id, ?token=tok); when the token passes, handle_socket starts
\* with the first step of WsManager::connect (as in ConnectAlloc)
WsInbox(u, tok) ==
    IF tok.form \in {"absent", "empty"}
    THEN CloseWith(u, tok, 4001, "Missing authentication token")
    ELSE IF ~DecodeOk(tok)
    THEN CloseWith(u, tok, 4001, "Invalid or expired token")
    ELSE IF tok.sub # u
    THEN CloseWith(u, tok, 4003, "Forbidden")
    ELSE /\ CONN_COUNTER < MaxConns
         /\ cstate[CONN_COUNTER] = "unused"
         /\ cstate' = [cstate EXCEPT ![CONN_COUNTER] = "allocated"]
         /\ cuser' = [cuser EXCEPT ![CONN_COUNTER] = u]
         /\ rxOpen' = [rxOpen EXCEPT ![CONN_COUNTER] = TRUE]
         /\ CONN_COUNTER' = CONN_COUNTER + 1
         /\ session' = [path |-> u, token |-> tok, outcome |-> "session", code |-> 0,
                        reason |-> ""]
         /\ UNCHANGED <<connections, inbox, pstate, published, rateVars, sendVars>>

AuthInit == session = NoSession

\* sessions that come in through ws_inbox, and publishes
WsAuthNext ==
    \/ \E u \in Users, tok \in Tokens : WsInbox(u, tok)
    \/ \E c \in ConnIds : ConnectPush(c)
    \/ \E c \in ConnIds : Disconnect(c)
    \/ \E c \in ConnIds : DisconnectRemove(c)
    \/ \E p \in PubTasks, u \in Users : SendRetain(p, u)
    \/ \E p \in PubTasks : SendRemove(p)

WsNext ==
    \/ \E u \in Users : ConnectAlloc(u)
    \/ \E c \in ConnIds : ConnectPush(c)
    \/ \E c \in ConnIds : Disconnect(c)
    \/ \E c \in ConnIds : DisconnectRemove(c)
    \/ \E c \in ConnIds : SessionAbort(c)
    \/ \E p \in PubTasks, u \in Users : SendRetain(p, u)
    \/ \E p \in PubTasks : SendRemove(p)

(***************************************************************************)
(* send_message (src/src/routes/chat.rs) over the messages table            *)
(* (MessageRepository).  Every .await on the store or on the generation     *)
(* backend is a step of its own; a store call may fail (sqlx::Error).       *)
(***************************************************************************)
SendTasks == {"s1", "s2"}
NoCid     == "none"
ClientIds == {"x", NoCid}
\* the conversations table: one conversation, of user u1
ConvTable == [c1 |-> [user_id |-> "u1"]]
ConvIds   == DOMAIN ConvTable
ReqConvs  == ConvIds \cup {"c9"}
StoreOutcomes == {"ok", "err"}
GenOutcomes   == {"ok", "err"}
InfluencerStates == {"active", "discontinued", "missing"}
FALLBACK_ERROR_MESSAGE == "I'm having trouble generating a response right now. Please try again."
GenText   == "generated"
GenTokens == 12
NoTokenCount == -1
NoMsg     == 0
NoPair    == [user |-> NoMsg, assistant |-> NoMsg]
NoSendResp == [kind |-> "none"]
MaxMediaUrls == 10

\* request bodies: message_type, content, number of media_urls, audio_url given or not
Body(ty, content, media, audio) ==
    [message_type |-> ty, content |-> content, media_urls |-> media, audio_url |-> audio]
NoBody == Body("", "", 0, FALSE)
Bodies == { Body("text", "hello", 0, FALSE), Body("text", "", 0, FALSE),
            Body("text", "  ", 0, FALSE),
            Body("image", "", 0, FALSE),
            Body("multimodal", "look", MaxMediaUrls + 1, FALSE),
            Body("audio", "", 0, TRUE), Body("audio", "", 0, FALSE),
            Body("video", "hello", 0, FALSE) }

\* MessageType::from_str
MessageTypes == {"text", "multimodal", "image", "audio"}

\* str::trim on the contents used here
Trim(content) == IF content = "  " THEN "" ELSE content

\* SendMessageRequest::validate_content is Ok
ValidateContent(b) ==
    /\ b.message_type \in MessageTypes
    /\ b.message_type = "text" => Trim(b.content) # ""
    /\ b.message_type \in {"image", "multimodal"} =>
          (b.media_urls # 0 /\ b.media_urls <= MaxMediaUrls)
    /\ b.message_type = "audio" => b.audio_url

SIdle == [pc |-> "idle", conv |-> "", caller |-> "", cid |-> NoCid, body |-> NoBody,
          existing |-> NoMsg, user_msg |-> NoMsg, content |-> "", gen |-> "none",
          resp |-> NoSendResp, known |-> NoPair, wrote |-> 0, did |-> {},
          typing |-> <<>>, memories |-> {}, history |-> <<>>]

\* AppError::status_and_code
ErrorCode(status) ==
    CASE status = 400 -> "bad_request"
      [] status = 403 -> "forbidden"
      [] status = 404 -> "not_found"
      [] status = 422 -> "validation_error"
      [] OTHER        -> "database_error"

\* AppError::into_response
ErrorResp(status) == [kind |-> "error", status |-> status, error |-> ErrorCode(status)]
OkResp(status, u, a) ==
    [kind |-> "ok", status |-> status, user_message |-> u, assistant_message |-> a]

MsgIds == 1..Len(messages)

\* MessageRepository::create: the new row, created_at from the database clock.
\* reply_to is history: for an assistant row, the user row that the send which
\* wrote it had written.
NewRow(conv, role, content, tokens, cid) ==
    [conv |-> conv, role |-> role, content |-> content, token_count |-> tokens,
     client_id |-> cid, created_at |-> dbNow, reply_to |-> NoMsg]

\* get_by_client_id: WHERE conversation_id = ? AND client_message_id = ?
ByClientId(conv, cid) ==
    {i \in MsgIds : messages[i].conv = conv /\ messages[i].client_id = cid}

\* get_assistant_reply: the assistant rows of the conversation with
\* created_at >= the message's created_at (both texts of whole seconds) and
\* another id, ORDER BY created_at ASC LIMIT 1: any of the earliest
AssistantReply(id) ==
    LET cand == {i \in MsgIds : /\ messages[i].conv = messages[id].conv
                                /\ messages[i].role = "assistant"
                                /\ messages[i].created_at >= messages[id].created_at
                                /\ i # id}
    IN  {i \in cand : \A j \in cand : messages[i].created_at <= messages[j].created_at}

\* rows with equal created_at come out of ORDER BY created_at in an order the
\* statement does not fix: by ascending or by descending rowid
TieOrders == {"rowid_asc", "rowid_desc"}
ContextFetchLimit == 11
HistoryLimit == 10

\* row i is listed before row j by ORDER BY created_at DESC
ListedBefore(i, j, tie) ==
    \/ messages[i].created_at > messages[j].created_at
    \/ /\ messages[i].created_at = messages[j].created_at
       /\ IF tie = "rowid_asc" THEN i < j ELSE i > j

\* the last n elements of sequence q (all of q when it is shorter)
LastN(q, n) == IF Len(q) > n THEN SubSeq(q, Len(q) - n + 1, Len(q)) ELSE q

\* get_recent_for_context: WHERE conversation_id = ? ORDER BY created_at DESC
\* LIMIT ?, then reversed
RecentForContext(conv, limit, tie) ==
    LET rows == {i \in MsgIds : messages[i].conv = conv}
        pos(i) == 1 + Cardinality({j \in rows : ListedBefore(j, i, tie)})
        n == IF Cardinality(rows) > limit THEN limit ELSE Cardinality(rows)
    IN  [p \in 1..n |-> CHOOSE i \in rows : pos(i) = n + 1 - p]

\* the history handed to generation: without the user message just written,
\* the last 10 (chat.rs 346-356)
History(conv, own, tie) ==
    LastN(SelectSeq(RecentForContext(conv, ContextFetchLimit, tie), LAMBDA i : i # own),
          HistoryLimit)

Finish(t, resp) ==
    sreq' = [sreq EXCEPT ![t].pc = "done", ![t].resp = resp]

\* the requests sent: one well-formed text message of the owner, with and
\* without a clientMessageId, and requests that differ from it in one respect
Req(conv, caller, cid, body) == [conv |-> conv, caller |-> caller, cid |-> cid, body |-> body]
Requests ==
    {Req("c1", "u1", cid, Body("text", "hello", 0, FALSE)) : cid \in ClientIds}
    \cup {Req("c9", "u1", NoCid, Body("text", "hello", 0, FALSE)),
          Req("c1", "u2", NoCid, Body("text", "hello", 0, FALSE))}
    \cup {Req("c1", "u1", NoCid, body) : body \in Bodies}

\* memories: the set of facts (key: value entries) of metadata["memories"]
Facts == {"name: Ann", "pet: cat"}
TranscribeOutcomes == {"ok", "err"}
\* extract_memories: Err, or Ok with the facts found in the exchange (none
\* found, or the backend call failed: the existing memories come back)
ExtractOutcomes ==
    {[ok |-> FALSE, new |-> {}]} \cup {[ok |-> TRUE, new |-> f] : f \in SUBSET Facts}

\* continuations that refer to the row after assistant message a
ContinuationAhead(kind, t, a) ==
    [kind |-> kind, conv |-> sreq[t].conv, user |-> sreq[t].caller, msg |-> a + 1,
     memories |-> sreq[t].memories, at |-> "spawned"]

\* the two continuations send_message spawns for assistant message a
Continuation(kind, t, a) ==
    [kind |-> kind, conv |-> sreq[t].conv, user |-> sreq[t].caller, msg |-> a,
     memories |-> sreq[t].memories, at |-> "spawned"]

\* the database clock moves on by a second
DbTick ==
    /\ dbNow < MaxDbTicks
    /\ dbNow' = dbNow + 1
    /\ UNCHANGED <<messages, influencer, sreq, sends, firstPair, convMemories, bg,
                   outsideSend>>

\* validate, conversation lookup, ownership (chat.rs 262-277), for a request
\* out of reqs
SendStartFrom(t, reqs) ==
    /\ sreq[t].pc = "idle"
    /\ sends < MaxSends
    /\ sends' = sends + 1
    /\ \E rq \in reqs, o \in StoreOutcomes :
          LET r == [SIdle EXCEPT !.conv = rq.conv, !.caller = rq.caller, !.cid = rq.cid,
                                 !.body = rq.body,
                                 !.known = IF rq.conv \in ConvIds
                                           THEN firstPair[rq.conv][rq.cid] ELSE NoPair]
              l == [r EXCEPT !.did = {"conv_lookup"}]
          IN  sreq' = [sreq EXCEPT ![t] =
                 IF ~ValidateContent(rq.body)
                 THEN [r EXCEPT !.pc = "done", !.resp = ErrorResp(400)]
                 ELSE IF o = "err" THEN [l EXCEPT !.pc = "done", !.resp = ErrorResp(500)]
                 ELSE IF rq.conv \notin ConvIds
                      THEN [l EXCEPT !.pc = "done", !.resp = ErrorResp(404)]
                 ELSE IF ConvTable[rq.conv].user_id # rq.caller
                      THEN [l EXCEPT !.pc = "done", !.resp = ErrorResp(403)]
                 ELSE [l EXCEPT !.pc = "dedup", !.memories = convMemories[rq.conv]]]
    /\ UNCHANGED <<messages, dbNow, influencer, firstPair, convMemories, bg, outsideSend>>

SendStart(t) == SendStartFrom(t, Requests)

\* the owner's well-formed text message, with and without a clientMessageId
TextRequests ==
    {rq \in Requests : /\ rq.caller = "u1" /\ rq.conv = "c1"
                       /\ rq.body.message_type = "text" /\ rq.body.content = "hello"}

\* deduplication: get_by_client_id (chat.rs 280-284)
DedupLookup(t) ==
    /\ sreq[t].pc = "dedup"
    /\ IF sreq[t].cid = NoCid
       THEN sreq' = [sreq EXCEPT ![t].pc = "influencer"]
       ELSE \E o \in StoreOutcomes :
              IF o = "err" THEN Finish(t, ErrorResp(500))
              ELSE IF ByClientId(sreq[t].conv, sreq[t].cid) = {}
                   THEN sreq' = [sreq EXCEPT ![t].pc = "influencer"]
                   ELSE \E e \in ByClientId(sreq[t].conv, sreq[t].cid) :
                          sreq' = [sreq EXCEPT ![t].pc = "reply", ![t].existing = e]
    /\ UNCHANGED <<messages, dbNow, influencer, sends, firstPair, convMemories, bg,
                   outsideSend>>

\* a deduplication that publishes typing_status(true) before it answers
DedupReplyTyping(t) ==
    /\ sreq[t].pc = "reply"
    /\ \E o \in StoreOutcomes :
          IF o = "err" THEN Finish(t, ErrorResp(500))
          ELSE IF AssistantReply(sreq[t].existing) = {}
               THEN sreq' = [sreq EXCEPT ![t].pc = "influencer"]
               ELSE \E a \in AssistantReply(sreq[t].existing) :
                      sreq' = [sreq EXCEPT ![t].pc = "done",
                                           ![t].resp = OkResp(200, sreq[t].existing, a),
                                           ![t].typing = Append(@, TRUE)]
    /\ UNCHANGED <<messages, dbNow, influencer, sends, firstPair, convMemories, bg,
                   outsideSend>>

\* deduplication: get_assistant_reply and the early return (chat.rs 285-293)
DedupReply(t) ==
    /\ sreq[t].pc = "reply"
    /\ \E o \in StoreOutcomes :
          IF o = "err" THEN Finish(t, ErrorResp(500))
          ELSE IF AssistantReply(sreq[t].existing) = {}
               THEN sreq' = [sreq EXCEPT ![t].pc = "influencer"]
               ELSE \E a \in AssistantReply(sreq[t].existing) :
                      Finish(t, OkResp(200, sreq[t].existing, a))
    /\ UNCHANGED <<messages, dbNow, influencer, sends, firstPair, convMemories, bg,
                   outsideSend>>

\* an influencer lookup that finds out that the influencer is discontinued
\* only after the audio was transcribed
InfluencerLookupLate(t) ==
    /\ sreq[t].pc = "influencer"
    /\ \E o \in StoreOutcomes :
          IF o = "err" THEN Finish(t, ErrorResp(500))
          ELSE IF influencer = "missing" THEN Finish(t, ErrorResp(404))
          ELSE IF influencer = "discontinued"
               THEN sreq' = [sreq EXCEPT ![t].pc = "done", ![t].resp = ErrorResp(403),
                                         ![t].did = @ \cup {"transcribe"}]
          ELSE IF sreq[t].body.message_type = "audio" /\ sreq[t].body.audio_url
               THEN sreq' = [sreq EXCEPT ![t].pc = "transcribe",
                                         ![t].did = @ \cup {"transcribe"}]
               ELSE sreq' = [sreq EXCEPT ![t].pc = "save_user",
                                         ![t].content = sreq[t].body.content]
    /\ UNCHANGED <<messages, dbNow, influencer, sends, firstPair, convMemories, bg,
                   outsideSend>>

\* influencer lookup and the discontinued test (chat.rs 297-307); a message
\* that is not audio with an audio_url keeps its content (chat.rs 310-325)
InfluencerLookup(t) ==
    /\ sreq[t].pc = "influencer"
    /\ \E o \in StoreOutcomes :
          IF o = "err" THEN Finish(t, ErrorResp(500))
          ELSE IF influencer = "missing" THEN Finish(t, ErrorResp(404))
          ELSE IF influencer = "discontinued" THEN Finish(t, ErrorResp(403))
          ELSE IF sreq[t].body.message_type = "audio" /\ sreq[t].body.audio_url
               THEN sreq' = [sreq EXCEPT ![t].pc = "transcribe",
                                         ![t].did = @ \cup {"transcribe"}]
               ELSE sreq' = [sreq EXCEPT ![t].pc = "save_user",
                                         ![t].content = sreq[t].body.content]
    /\ UNCHANGED <<messages, dbNow, influencer, sends, firstPair, convMemories, bg,
                   outsideSend>>

\* gemini.transcribe_audio answers or fails (chat.rs 313-319)
Transcribe(t) ==
    /\ sreq[t].pc = "transcribe"
    /\ \E o \in TranscribeOutcomes :
          sreq' = [sreq EXCEPT ![t].pc = "save_user",
                               ![t].content = IF o = "ok" THEN "[Transcribed: hello]"
                                  ELSE "[Audio message - transcription unavailable]"]
    /\ UNCHANGED <<messages, dbNow, influencer, sends, firstPair, convMemories, bg,
                   outsideSend>>

\* the user message is handed on without being saved
SaveUserSkipped(t) ==
    /\ sreq[t].pc = "save_user"
    /\ sreq' = [sreq EXCEPT ![t].pc = "context"]
    /\ UNCHANGED <<messages, dbNow, influencer, sends, firstPair, convMemories, bg,
                   outsideSend>>

\* save the user message (chat.rs 328-340)
SaveUser(t) ==
    /\ sreq[t].pc = "save_user"
    /\ \E o \in StoreOutcomes :
          IF o = "err"
          THEN /\ Finish(t, ErrorResp(500))
               /\ UNCHANGED messages
          ELSE /\ messages' = Append(messages,
                      NewRow(sreq[t].conv, "user", sreq[t].content, NoTokenCount,
                             sreq[t].cid))
               /\ sreq' = [sreq EXCEPT ![t].pc = "context",
                                       ![t].user_msg = Len(messages) + 1,
                                       ![t].wrote = @ + 1]
    /\ UNCHANGED <<dbNow, influencer, sends, firstPair, convMemories, bg, outsideSend>>

\* get_recent_for_context; then, without suspending, the presigned URLs, the
\* memories, typing_status(true) and the call of the generation backend
\* (chat.rs 343-462).  No session is open under this specification, so
\* send_to_user finds no entry for the user.
ContextFetch(t) ==
    /\ sreq[t].pc = "context"
    /\ \E o \in StoreOutcomes, tie \in TieOrders :
          IF o = "err" THEN Finish(t, ErrorResp(500))
          ELSE sreq' = [sreq EXCEPT ![t].pc = "generate",
                                    ![t].typing = Append(@, TRUE),
                                    ![t].did = @ \cup {"generate"},
                                    ![t].history =
                                        History(sreq[t].conv, sreq[t].user_msg, tie)]
    /\ UNCHANGED <<messages, dbNow, influencer, sends, firstPair, convMemories, bg,
                   outsideSend>>

\* a generation step that publishes typing_status(false) only on success
GenerateStopOnSuccess(t) ==
    /\ sreq[t].pc = "generate"
    /\ \E g \in GenOutcomes :
          sreq' = [sreq EXCEPT ![t].pc = "save_assistant", ![t].gen = g,
                               ![t].typing = IF g = "ok" THEN Append(@, FALSE) ELSE @,
                               ![t].history = <<>>]
    /\ UNCHANGED <<messages, dbNow, influencer, sends, firstPair, convMemories, bg,
                   outsideSend>>

\* the generation backend answers or fails; typing_status(false) (chat.rs 442-470)
Generate(t) ==
    /\ sreq[t].pc = "generate"
    /\ \E g \in GenOutcomes :
          sreq' = [sreq EXCEPT ![t].pc = "save_assistant", ![t].gen = g,
                               ![t].typing = Append(@, FALSE), ![t].history = <<>>]
    /\ UNCHANGED <<messages, dbNow, influencer, sends, firstPair, convMemories, bg,
                   outsideSend>>

\* fallback, save the assistant message, spawn the two continuations, status
\* and response (chat.rs 472-599)
SaveAssistant(t) ==
    LET is_fallback   == sreq[t].gen = "err"
        response_text == IF is_fallback THEN FALLBACK_ERROR_MESSAGE ELSE GenText
        token_count   == IF is_fallback THEN 0 ELSE GenTokens
        a             == Len(messages) + 1
    IN  /\ sreq[t].pc = "save_assistant"
        /\ \E o \in StoreOutcomes :
              IF o = "err"
              THEN /\ Finish(t, ErrorResp(500))
                   /\ UNCHANGED <<messages, firstPair, bg>>
              ELSE /\ messages' = Append(messages,
                          [NewRow(sreq[t].conv, "assistant", response_text, token_count,
                                  NoCid) EXCEPT !.reply_to = sreq[t].user_msg])
                   /\ bg' = bg \cup {Continuation("memory", t, a),
                                     Continuation("fanout", t, a)}
                   /\ sreq' = [sreq EXCEPT
                          ![t].pc = "done", ![t].wrote = @ + 1,
                          ![t].did = @ \cup {"spawn"},
                          ![t].resp = OkResp(IF is_fallback THEN 503 ELSE 200,
                                             sreq[t].user_msg, a)]
                   /\ firstPair' =
                        IF firstPair[sreq[t].conv][sreq[t].cid] = NoPair
                        THEN [firstPair EXCEPT ![sreq[t].conv][sreq[t].cid] =
                                [user |-> sreq[t].user_msg, assistant |-> a]]
                        ELSE firstPair
        /\ UNCHANGED <<dbNow, influencer, sends, convMemories, outsideSend>>

\* the response has gone out
SendReturn(t) ==
    /\ sreq[t].pc = "done"
    /\ sreq' = [sreq EXCEPT ![t] = SIdle]
    /\ UNCHANGED <<messages, dbNow, influencer, sends, firstPair, convMemories, bg,
                   outsideSend>>

\* the memory continuation: extract_memories merges what it found into the
\* memories the send had read (parse_memory_json), and update_metadata
\* writes the result when it differs from them; every failure is logged
\* only (chat.rs 505-530)
MemoryExtraction(b) ==
    /\ b.kind = "memory" /\ b.at = "spawned"
    /\ \E out \in ExtractOutcomes, o \in StoreOutcomes :
          LET updated == b.memories \cup out.new
              changed == out.ok /\ updated # b.memories
          IN  /\ convMemories' = IF changed /\ o = "ok"
                                 THEN [convMemories EXCEPT ![b.conv] = updated]
                                 ELSE convMemories
              /\ bg' = bg \ {b}
    /\ UNCHANGED <<messages, dbNow, influencer, sreq, sends, firstPair, outsideSend>>

\* the delivery continuation: count_unread (0 on failure), then
\* broadcast_new_message (chat.rs 547-567).  No session is open under this
\* specification, so send_to_user finds no entry for the user.
FanOut(b) ==
    /\ b.kind = "fanout" /\ b.at = "spawned"
    /\ \E o \in StoreOutcomes : bg' = (bg \ {b}) \cup {[b EXCEPT !.at = "push"]}
    /\ UNCHANGED <<messages, dbNow, influencer, sreq, sends, firstPair, convMemories,
                   outsideSend>>

\* a push notification that, when it is not sent, has the send repeated
PushNotifyRetrying(b) ==
    /\ b.kind = "fanout" /\ b.at = "push"
    /\ \E sent \in BOOLEAN :
          /\ bg' = bg \ {b}
          /\ sends' = IF sent \/ sends = 0 THEN sends ELSE sends - 1
    /\ UNCHANGED <<messages, dbNow, influencer, sreq, firstPair, convMemories, outsideSend>>

\* the delivery continuation: send_push_notification returns true or false
\* (chat.rs 569-583, notification.rs 21-76)
PushNotify(b) ==
    /\ b.kind = "fanout" /\ b.at = "push"
    /\ \E sent \in BOOLEAN : bg' = bg \ {b}
    /\ UNCHANGED <<messages, dbNow, influencer, sreq, sends, firstPair, convMemories,
                   outsideSend>>

SendInit ==
    /\ messages = <<>>
    /\ dbNow = 0
    /\ influencer \in InfluencerStates
    /\ sreq = [t \in SendTasks |-> SIdle]
    /\ sends = 0
    /\ firstPair = [c \in ConvIds |-> [x \in ClientIds |-> NoPair]]
    /\ convMemories = [c \in ConvIds |-> {}]
    /\ bg = {}

\* concurrent sends; their continuations have not run yet
SendNext ==
    \/ DbTick
    \/ \E t \in SendTasks : SendStart(t)
    \/ \E t \in SendTasks : DedupLookup(t)
    \/ \E t \in SendTasks : DedupReply(t)
    \/ \E t \in SendTasks : InfluencerLookup(t)
    \/ \E t \in SendTasks : Transcribe(t)
    \/ \E t \in SendTasks : SaveUser(t)
    \/ \E t \in SendTasks : ContextFetch(t)
    \/ \E t \in SendTasks : Generate(t)
    \/ \E t \in SendTasks : SaveAssistant(t)
    \/ \E t \in SendTasks : SendReturn(t)

\* one send at a time, and the continuations it spawned
FirstSend == CHOOSE t \in SendTasks : TRUE

\* one send at a time, its continuations not run
SendOneNext ==
    \/ SendStart(FirstSend)
    \/ DedupLookup(FirstSend)
    \/ DedupReply(FirstSend)
    \/ InfluencerLookup(FirstSend)
    \/ Transcribe(FirstSend)
    \/ SaveUser(FirstSend)
    \/ ContextFetch(FirstSend)
    \/ Generate(FirstSend)
    \/ SaveAssistant(FirstSend)
    \/ SendReturn(FirstSend)

SendBgNext ==
    \/ SendStartFrom(FirstSend, TextRequests)
    \/ DedupLookup(FirstSend)
    \/ DedupReply(FirstSend)
    \/ InfluencerLookup(FirstSend)
    \/ SaveUser(FirstSend)
    \/ ContextFetch(FirstSend)
    \/ Generate(FirstSend)
    \/ SaveAssistant(FirstSend)
    \/ SendReturn(FirstSend)
    \/ \E b \in bg : MemoryExtraction(b)
    \/ \E b \in bg : FanOut(b)
    \/ \E b \in bg : PushNotify(b)

\* the rate limiter and the WsManager do not read the influencer
Init == RateInit /\ WsInit /\ SendInit /\ AuthInit /\ influencer = "active"

InitSend == RateInit /\ WsInit /\ SendInit /\ AuthInit

SpecRate == Init /\ [][RateNext]_vars

SpecRateSeq == Init /\ [][RateSeqNext]_vars

SpecRateIdle == Init /\ [][RateIdleNext]_vars
SpecRateRetry == Init /\ [][RateRetryNext]_vars

SpecWs == Init /\ [][WsNext]_vars

\* a disconnect that has dropped its guard goes on to remove the key: nothing
\* is awaited between the two
SpecWsFair == Init /\ [][WsNext]_vars /\ \A c \in ConnIds : WF_vars(DisconnectRemove(c))

SpecWsAuth == Init /\ [][WsAuthNext]_vars

SpecSend == InitSend /\ [][SendNext]_vars

SpecSendBg == InitSend /\ [][SendBgNext]_vars

\* the generation backend answers or fails in the end: generate_response is
\* awaited and the task is polled again when the call completes
SpecSendFair == InitSend /\ [][SendOneNext]_vars /\ WF_vars(Generate(FirstSend))

(***************************************************************************)
(* Properties of the rate limiter.                                         *)
(***************************************************************************)
Present(k) == buckets[k] # NoEntry
Bucket(k, w) == IF w = "minute" THEN buckets[k].minute ELSE buckets[k].hour
WindowSeconds(w) == IF w = "minute" THEN MinuteSeconds ELSE HourSeconds
Denied(t, lt) == req[t].pc = "respond" /\ req[t].resp.kind = "deny"
                 /\ req[t].resp.limit_type = lt

\* C3: for every identifier and for both buckets, 0 <= tokens <= capacity in
\* every reachable state, whatever admits, refunds and clock steps came before.
C3_TokensWithinCapacity ==
    \A k \in Ids : Present(k) =>
        \A w \in Windows : /\ 0 <= Bucket(k, w).tokens
                           /\ Bucket(k, w).tokens <= Capacity(w)

\* a per-hour denial has refunded the minute token while another request of the
\* same identifier is in flight
C3_Witness ==
    \E t \in Tasks, u \in Tasks :
        /\ t # u
        /\ Denied(t, "per_hour")
        /\ req[u].pc = "forward" /\ req[u].ident = req[t].ident
        /\ buckets[req[t].ident].minute.tokens >= TokenUnit
        /\ buckets[req[t].ident].hour.tokens < TokenUnit

\* C4 as stated: per identifier and window, the admitted requests within any
\* rolling interval of the window's duration number at most the capacity.
C4_AtMostCapacityPerWindow ==
    \A k \in Ids : \A w \in Windows :
        \A i \in 1..Len(allowTimes[k]) : \A j \in i..Len(allowTimes[k]) :
            allowTimes[k][j] - allowTimes[k][i] < WindowSeconds(w)
                => j - i + 1 <= Limit(w)

\* C4 amended: the admitted requests within any interval number at most the
\* capacity plus the tokens refilled during the interval, hence at most twice
\* the capacity within an interval of the window's duration.
C4_AtMostCapacityPlusRefill ==
    \A k \in Ids : \A w \in Windows :
        \A i \in 1..Len(allowTimes[k]) : \A j \in i..Len(allowTimes[k]) :
            /\ (j - i + 1) * TokenUnit
                 <= Capacity(w) + (allowTimes[k][j] - allowTimes[k][i]) * RefillRate(w)
            /\ allowTimes[k][j] - allowTimes[k][i] <= WindowSeconds(w)
                 => j - i + 1 <= 2 * Limit(w)

\* more requests than the minute capacity were admitted within one minute
C4_Witness ==
    \E k \in Ids :
        /\ Len(allowTimes[k]) > PerMinute
        /\ allowTimes[k][Len(allowTimes[k])] - allowTimes[k][1] < MinuteSeconds

\* C5: a denial on the hour window gives the minute token back: right after it
\* the minute bucket holds what it held before the call, counted at the instant
\* of the call (the bucket the call found, refilled to the call's own time), so
\* the denial never lowers the minute bucket's remaining count.
C5_HourDenialRefundsMinute ==
    [][\A t \in Tasks :
         (req[t].pc = "hour" /\ req'[t].pc = "respond") =>
            LET id     == req[t].ident
                before == Refill(req[t].seen, "minute", buckets[id].minute.last_refill)
            IN  /\ req'[t].resp.limit_type = "per_hour"
                /\ buckets'[id].minute.tokens = before.tokens
                /\ Remaining(buckets'[id].minute) = Remaining(before)
                /\ Remaining(buckets'[id].minute) >= Remaining(req[t].seen)]_vars

\* a request has been denied on the hour window
C5_Witness == \E t \in Tasks : Denied(t, "per_hour")

\* C6: a burst on a fresh identifier.  While less than one refill interval of the
\* minute bucket has passed since the first admitted request, the k-th admitted
\* request reports PerMinute - k remaining, and a request is denied only after
\* PerMinute admitted ones, on the minute window, with retry_after >= 1.
InBurst(k) ==
    /\ Len(allowTimes[k]) > 0
    /\ (now - allowTimes[k][1]) * RefillRate("minute") < TokenUnit

C6_BurstFromFresh ==
    \A t \in Tasks :
        LET k == req[t].ident
        IN  /\ (req[t].pc = "forward" /\ req[t].resp.kind = "admitted" /\ InBurst(k)) =>
                 /\ Len(allowTimes[k]) <= PerMinute
                 /\ req[t].resp.rem_minute = PerMinute - Len(allowTimes[k])
            /\ (req[t].pc = "respond" /\ req[t].resp.kind = "allow" /\ InBurst(k)) =>
                 req[t].resp.rem_minute = PerMinute - Len(allowTimes[k])
            /\ (req[t].pc = "respond" /\ req[t].resp.kind = "deny" /\ InBurst(k)) =>
                 /\ Len(allowTimes[k]) = PerMinute
                 /\ req[t].resp.limit_type = "per_minute"
                 /\ req[t].resp.retry_after >= 1

\* the request after a full burst has been denied on the minute window
C6_Witness ==
    \E t \in Tasks :
        /\ Denied(t, "per_minute")
        /\ InBurst(req[t].ident)
        /\ Len(allowTimes[req[t].ident]) = PerMinute

\* C10: admits of one identifier are serialised.  At most one task is between
\* borrowing the identifier's entry and dropping it, so refill, consumption and
\* refund of an admit are one step for the others; and the tokens are accounted
\* for exactly: each bucket holds its capacity plus what was refilled minus one
\* token per admitted request (and per minute token taken but not yet decided),
\* so no admit is granted without a whole token and no refund adds a token that
\* its own admit did not take.
InEntry(t, k) == req[t].pc \in {"minute", "hour"} /\ req[t].ident = k
Undecided(k) == Cardinality({t \in Tasks : req[t].pc = "hour" /\ req[t].ident = k})

C10_AdmitsSerialisedPerKey ==
    \A k \in Ids :
        /\ \A t \in Tasks, u \in Tasks : (InEntry(t, k) /\ InEntry(u, k)) => t = u
        /\ \A t \in Tasks : InEntry(t, k) <=> held[k] = t
        /\ Present(k) =>
             /\ buckets[k].minute.tokens =
                  Capacity("minute") + credited[k].minute
                    - TokenUnit * (Len(allowTimes[k]) + Undecided(k))
             /\ buckets[k].hour.tokens =
                  Capacity("hour") + credited[k].hour - TokenUnit * Len(allowTimes[k])

\* two requests of one identifier overlapped: one holds the entry with its
\* minute token taken while the other, admitted earlier, is still being served
C10_Witness ==
    \E t \in Tasks, u \in Tasks :
        /\ t # u
        /\ req[t].pc = "hour"
        /\ req[u].pc = "forward" /\ req[u].path \notin EXCLUDED_PATHS
        /\ req[u].ident = req[t].ident
        /\ buckets[req[t].ident].minute.tokens < TokenUnit

\* task t enters the limiter with a request for a governed path
Admitting(t) == req[t].pc = "idle" /\ req'[t].pc = "minute"

\* both buckets of identifier k were last touched more than the retention
\* window ago
Stale(k) ==
    /\ Present(k)
    /\ buckets[k].minute.last_refill < now - RetentionSeconds
    /\ buckets[k].hour.last_refill < now - RetentionSeconds

\* C11: when the sweep interval has passed since the previous sweep, an admit
\* call removes the entry of every other identifier whose minute and hour
\* buckets were both last touched more than the retention window ago.
C11_IdleIdentifiersEvicted ==
    [][ \A t \in Tasks :
          (Admitting(t) /\ now - last_cleanup >= CleanupInterval) =>
              \A k \in Ids \ {req'[t].ident} : Stale(k) => buckets'[k] = NoEntry ]_vars

\* the paths the governor must let through untouched
ExemptPaths == {"/", "/health", "/status"}

\* the path of the request task t is serving in this step
StepPath(t) == IF req[t].pc = "idle" THEN req'[t].path ELSE req[t].path

\* C12: every step of a request for an exempt path leaves the bucket table,
\* the locks and the sweep time as they are (no token taken, no entry
\* made); the request goes from arrival straight to the inner handler, and
\* its response is the inner handler's with no X-RateLimit-* header.
C12_ExemptPathsBypass ==
    [][ \A t \in Tasks :
          (req'[t] # req[t] /\ StepPath(t) \in ExemptPaths) =>
              /\ buckets' = buckets /\ held' = held /\ last_cleanup' = last_cleanup
              /\ credited' = credited /\ allowTimes' = allowTimes
              /\ req[t].pc = "idle" => req'[t].pc = "forward"
              /\ req[t].pc = "forward" =>
                    /\ req'[t].pc = "respond"
                    /\ req'[t].resp.forwarded
                    /\ req'[t].resp.headers = {}
              /\ req[t].pc \in {"idle", "forward", "respond"} ]_vars

\* a health check was answered by the inner handler while the bucket table
\* is still empty
C12_Witness ==
    \E t \in Tasks :
        /\ req[t].pc = "respond" /\ req[t].path = "/health"
        /\ req[t].resp.kind = "bypass"
        /\ \A k \in Ids : buckets[k] = NoEntry
        /\ calls > 1

RateLimitHeaders == {"X-RateLimit-Limit-Minute", "X-RateLimit-Limit-Hour",
                     "X-RateLimit-Remaining-Minute", "X-RateLimit-Remaining-Hour"}

\* C13: a denial is a 429 made by the governor, never forwarded, with
\* limit_type per_minute or per_hour, the limit of that window and a
\* Retry-After header equal to the body's retry_after; a denied request
\* never gets to the inner handler, and a response with any X-RateLimit-*
\* header is that of a request that passed both buckets.
C13_DeniedNeverForwarded ==
    [][ \A t \in Tasks :
          /\ req'[t].resp.kind = "deny" =>
                /\ req'[t].pc = "respond"
                /\ req'[t].resp.status = 429
                /\ ~req'[t].resp.forwarded
                /\ \/ req'[t].resp.limit_type = "per_minute" /\ req'[t].resp.limit = PerMinute
                   \/ req'[t].resp.limit_type = "per_hour" /\ req'[t].resp.limit = PerHour
                /\ req'[t].resp.header_retry_after = req'[t].resp.retry_after
                /\ req'[t].resp.headers = {"Retry-After"}
          /\ req[t].resp.kind = "deny" => req'[t].pc \in {"respond", "idle"}
          /\ (req'[t].pc = "respond" /\ req'[t].resp.headers \cap RateLimitHeaders # {}) =>
                /\ req'[t].resp.kind = "allow"
                /\ req'[t].resp.headers = RateLimitHeaders
                /\ req[t].pc = "respond" \/ req[t].resp.kind = "admitted" ]_vars

\* one request was denied per hour while another, admitted, has its
\* response with the four headers
C13_Witness ==
    \E t \in Tasks, u \in Tasks :
        /\ Denied(t, "per_hour") /\ req[t].resp.limit = PerHour
        /\ req[u].pc = "respond" /\ req[u].resp.kind = "allow"

TypeOKRate ==
    /\ now \in Nat
    /\ \A k \in Ids : held[k] \in Tasks \cup {NoTask}

(***************************************************************************)
(* Properties of the WsManager.                                            *)
(***************************************************************************)
\* the step is a publish: send_to_user sent (or tried to send) one more event
IsPublish == Len(published') = Len(published) + 1

\* the step belongs to disconnect(cuser[c], c)
IsDisconnectOf(c) ==
    /\ cstate[c] \in {"live", "removing"}
    /\ cstate'[c] \in {"removing", "closed"}
    /\ cstate'[c] # cstate[c]

\* no connect, disconnect or send_to_user is part-way through
Quiescent ==
    /\ \A c \in ConnIds : cstate[c] \notin {"allocated", "removing"}
    /\ \A p \in PubTasks : pstate[p].pc = "idle"

\* C7: a publish to user u puts the event exactly once into the channel of
\* every connection registered for u at that moment whose receiver is alive,
\* and into no other channel: not into one that its disconnect has removed,
\* not into one of another user; with no entry for u nothing changes at all.
\* No other step puts anything into a channel.
C7_PublishToRegisteredOnly ==
    [][ IF IsPublish
        THEN LET u == published'[Len(published')]
                 m == Len(published')
             IN  /\ \A c \in ConnIds :
                       IF connections[u].present /\ c \in Range(ConnsOf(u)) /\ rxOpen[c]
                       THEN /\ m \notin Range(inbox[c])
                            /\ inbox'[c] = Append(inbox[c], m)
                       ELSE inbox'[c] = inbox[c]
                 /\ \A c \in ConnIds :
                       (cuser[c] # u \/ cstate[c] \in {"removing", "closed"})
                           => inbox'[c] = inbox[c]
                 /\ ~connections[u].present =>
                       /\ connections' = connections
                       /\ pstate' = pstate
        ELSE inbox' = inbox ]_vars

\* two connections of one user both got the first event, one of them was then
\* disconnected and missed the second, and a connection of another user got none
C7_Witness ==
    \E c \in ConnIds, d \in ConnIds, e \in ConnIds :
        /\ cuser[c] = cuser[d] /\ cuser[e] # cuser[c]
        /\ cstate[c] = "live" /\ cstate[d] = "closed" /\ cstate[e] = "live"
        /\ Registered(e)
        /\ inbox[c] = <<1, 2>> /\ inbox[d] = <<1>> /\ inbox[e] = <<>>
        /\ published = <<cuser[c], cuser[c]>>

\* C8: a step of disconnect(u, c) leaves c unregistered and every other
\* registered connection registered, and whenever no operation is part-way
\* through, no user key is mapped to an empty connection list.
C8_DisconnectRemovesOnlyItsOwn ==
    [][ /\ \A c \in ConnIds :
              IsDisconnectOf(c) =>
                  /\ ~Registered(c)'
                  /\ \A d \in ConnIds \ {c} : Registered(d) => Registered(d)'
        /\ Quiescent' =>
              \A u \in Users : connections'[u].present => connections'[u].conns # <<>>
      ]_vars

\* C9: a connection whose connect has returned, whose session is running and
\* whose receiver is alive stays registered across every step that is not a
\* step of its own disconnect.
C9_ConnectNeverLost ==
    [][ \A c \in ConnIds :
            (cstate[c] = "live" /\ cstate'[c] = "live" /\ rxOpen[c] /\ Registered(c))
                => Registered(c)' ]_vars

(***************************************************************************)
(* Properties of send_message.                                             *)
(***************************************************************************)
\* the send of task t has its response
SendDone(t) == sreq[t].pc = "done"

\* the send of task t carries a clientMessageId under which, when it started,
\* an earlier send on the conversation had completed with both rows persisted
IsRetry(t) == sreq[t].cid # NoCid /\ sreq[t].known # NoPair

\* C1: a send with clientMessageId X that starts after a send with X on the
\* same conversation has completed, and that answers with a message pair,
\* answers with the pair of that first send and writes no message row.
C1_RetryReturnsFirstPair ==
    \A t \in SendTasks :
        (SendDone(t) /\ IsRetry(t) /\ sreq[t].resp.kind = "ok") =>
            /\ sreq[t].resp.user_message = sreq[t].known.user
            /\ sreq[t].resp.assistant_message = sreq[t].known.assistant
            /\ sreq[t].wrote = 0

\* C2: a send whose generation failed ends with a message pair and status
\* 503, its user row and its assistant row are in the table, and the
\* assistant row holds the fallback text with token count 0.
C2_GenerationFailureDegrades ==
    \A t \in SendTasks :
        (SendDone(t) /\ sreq[t].gen = "err") =>
            /\ sreq[t].resp.kind = "ok"
            /\ sreq[t].resp.status = 503
            /\ sreq[t].resp.user_message = sreq[t].user_msg
            /\ sreq[t].user_msg \in MsgIds
            /\ messages[sreq[t].user_msg].role = "user"
            /\ sreq[t].resp.assistant_message \in MsgIds
            /\ messages[sreq[t].resp.assistant_message].role = "assistant"
            /\ messages[sreq[t].resp.assistant_message].content = FALLBACK_ERROR_MESSAGE
            /\ messages[sreq[t].resp.assistant_message].token_count = 0

\* generation has been called, or is about to be, for the send of task t
GenerationCalled(t) ==
    \/ "generate" \in sreq[t].did
    \/ sreq[t].gen # "none"
    \/ sreq[t].pc \in {"generate", "save_assistant"}

\* C14: whenever the generation backend has been called for a send, the user
\* row of that send is in the messages table: a row of role user, of the
\* send's conversation, holding the send's content.
C14_GenerationAfterUserRow ==
    \A t \in SendTasks :
        GenerationCalled(t) =>
            /\ sreq[t].user_msg \in MsgIds
            /\ messages[sreq[t].user_msg].role = "user"
            /\ messages[sreq[t].user_msg].conv = sreq[t].conv
            /\ messages[sreq[t].user_msg].content = sreq[t].content
            /\ messages[sreq[t].user_msg].client_id = sreq[t].cid

\* the generation backend is working on the first message of the table
C14_Witness ==
    \E t \in SendTasks :
        /\ sreq[t].pc = "generate"
        /\ sreq[t].user_msg = 1 /\ Len(messages) = 1
        /\ sreq[t].typing = <<TRUE>>

\* the step publishes the new_message event of delivery continuation b
PublishesNewMessage(b) ==
    /\ b \in bg /\ b.kind = "fanout" /\ b.at = "spawned"
    /\ b \notin bg'
    /\ [b EXCEPT !.at = "push"] \in bg'

\* C15: when a delivery continuation publishes its new_message event, the
\* message the event refers to is a row of the messages table, of role
\* assistant and of the continuation's conversation.
C15_PublishAfterAssistantRow ==
    [][ \A b \in bg :
          PublishesNewMessage(b) =>
              /\ b.msg \in MsgIds
              /\ messages[b.msg].role = "assistant"
              /\ messages[b.msg].conv = b.conv ]_vars

\* a new_message event has been published for an assistant row of the table
\* and its push notification is still to be sent
C15_Witness ==
    \E b \in bg :
        /\ b.kind = "fanout" /\ b.at = "push"
        /\ b.msg \in MsgIds /\ messages[b.msg].role = "assistant"

\* C16: a send that has written its user row ends with a message pair whose
\* assistant row is in the messages table; no later step ends it with an
\* error.
C16_SendCompletesAfterUserRow ==
    \A t \in SendTasks :
        (SendDone(t) /\ sreq[t].user_msg # NoMsg) =>
            /\ sreq[t].resp.kind = "ok"
            /\ sreq[t].resp.user_message = sreq[t].user_msg
            /\ sreq[t].resp.assistant_message \in MsgIds
            /\ messages[sreq[t].resp.assistant_message].role = "assistant"

\* the step is one of a continuation: a spawned task runs or ends
ContinuationStep ==
    \E b \in bg : \/ b \notin bg'
                  \/ (b.kind = "memory" /\ convMemories' # convMemories)

\* the step spawns the continuations of the send of task t
Spawns(t) == "spawn" \notin sreq[t].did /\ "spawn" \in sreq'[t].did

\* C17: the step of a send that spawns its two continuations is the step
\* that fixes its response, so the response is there while both are still
\* to run; and whatever a continuation does or fails to do, its step changes
\* no response of a send, no message row and no send counter: no send is
\* started or repeated by it.
C17_ContinuationsDetached ==
    [][ /\ \A t \in SendTasks :
              Spawns(t) =>
                  /\ SendDone(t)' /\ sreq'[t].resp.kind = "ok"
                  /\ \E b \in bg' \ bg : b.kind = "memory" /\ b.at = "spawned"
                  /\ \E b \in bg' \ bg : b.kind = "fanout" /\ b.at = "spawned"
        /\ ContinuationStep =>
              /\ sreq' = sreq
              /\ messages' = messages
              /\ sends' = sends
              /\ firstPair' = firstPair
              /\ bg' \subseteq bg \cup {[b EXCEPT !.at = "push"] : b \in bg} ]_vars

\* the response of a send has gone out, its delivery continuation has ended
\* and its memory continuation has not yet run
C17_Witness ==
    /\ \A t \in SendTasks : sreq[t].pc = "idle"
    /\ sends = 1 /\ Len(messages) = 2
    /\ \E b \in bg : b.kind = "memory" /\ b.at = "spawned"
    /\ \A b \in bg : b.kind = "memory"

\* C18: a send whose content is invalid for its message type ends with the
\* validation error (HTTP 422, error code validation_error), before any
\* conversation lookup and with no row written.
C18_InvalidContentRejected ==
    \A t \in SendTasks :
        (SendDone(t) /\ ~ValidateContent(sreq[t].body)) =>
            /\ sreq[t].resp = ErrorResp(422)
            /\ sreq[t].did = {}
            /\ sreq[t].wrote = 0
            /\ sreq[t].user_msg = NoMsg

\* the send of task t was refused: conversation not found, caller not the
\* owner, influencer missing or influencer discontinued
Refused(t) ==
    /\ SendDone(t)
    /\ sreq[t].resp.kind = "error"
    /\ sreq[t].resp.status \in {403, 404}

\* C19: a refused send has written no row, has called neither transcription
\* nor generation, has published no typing event and has spawned no
\* continuation.
C19_RefusedSendMutatesNothing ==
    \A t \in SendTasks :
        Refused(t) =>
            /\ sreq[t].wrote = 0
            /\ sreq[t].user_msg = NoMsg
            /\ sreq[t].did \subseteq {"conv_lookup"}
            /\ sreq[t].gen = "none"
            /\ sreq[t].typing = <<>>
            /\ sreq[t].content = ""

\* an audio message to a discontinued influencer was refused, in a table
\* that is still empty
C19_Witness ==
    \E t \in SendTasks :
        /\ Refused(t) /\ sreq[t].resp = ErrorResp(403)
        /\ sreq[t].caller = ConvTable[sreq[t].conv].user_id
        /\ sreq[t].body.message_type = "audio"
        /\ influencer = "discontinued"
        /\ messages = <<>> /\ bg = {}

\* the latest ws_inbox call was refused with close code code
ClosedWith(code) == session.outcome = "closed" /\ session.code = code

\* C20: a ws_inbox call whose token is missing or empty, does not decode
\* (not a JWT, expired, unexpected issuer, no subject), or names another
\* subject than the path's user id ends with close code 4001, 4001 or 4003
\* and leaves the connection table, the connection counter and every channel
\* as they were; and a connection is only ever allocated by a call whose
\* token decodes to the very user id of the path, which is the user the
\* connection is registered for.
C20_UnauthenticatedNeverRegistered ==
    [][ /\ session' # session =>
              LET tok == session'.token
                  u   == session'.path
                  bad == tok.form # "jwt" \/ tok.expired \/ tok.iss \notin EXPECTED_ISSUERS
                           \/ tok.sub # u
              IN  /\ bad <=> session'.outcome = "closed"
                  /\ tok.form \in {"absent", "empty"} => session'.code = 4001
                  /\ (tok.form = "garbage" \/ tok.expired \/ tok.iss \notin EXPECTED_ISSUERS)
                        => session'.code = 4001
                  /\ (tok.form = "jwt" /\ ~tok.expired /\ tok.iss \in EXPECTED_ISSUERS
                        /\ tok.sub # "" /\ tok.sub # u) => session'.code = 4003
                  /\ session'.outcome = "closed" =>
                        /\ session'.code \in {4001, 4003}
                        /\ connections' = connections /\ CONN_COUNTER' = CONN_COUNTER
                        /\ cstate' = cstate /\ cuser' = cuser /\ inbox' = inbox
        /\ CONN_COUNTER' # CONN_COUNTER =>
              /\ session'.outcome = "session"
              /\ session'.token.sub = session'.path
              /\ cuser'[CONN_COUNTER] = session'.path
        /\ \A c \in ConnIds : (~Registered(c) /\ Registered(c)') => c < CONN_COUNTER
      ]_vars

\* a session of u1 is registered and has received an event, and the latest
\* call, with the token of u2 on the path of u1, was closed with 4003
C20_Witness ==
    /\ ClosedWith(4003)
    /\ session.path = "u1" /\ session.token.sub = "u2"
    /\ \E c \in ConnIds : Registered(c) /\ cuser[c] = "u1" /\ inbox[c] # <<>>
    /\ \A c \in ConnIds : cstate[c] # "unused" => cuser[c] = "u1"

\* the user rows of conversation conv written under clientMessageId cid
UserRows(conv, cid) ==
    {i \in MsgIds : /\ messages[i].conv = conv
                    /\ messages[i].role = "user"
                    /\ messages[i].client_id = cid}

\* C21: in every state the messages table holds at most one user row per
\* conversation and clientMessageId.
C21_OneUserRowPerClientId ==
    \A conv \in ConvIds : \A cid \in ClientIds \ {NoCid} :
        Cardinality(UserRows(conv, cid)) <= 1

\* the send of task t was answered from deduplication: with the row found
\* under its clientMessageId and that row's assistant reply
DedupHit(t) ==
    /\ SendDone(t)
    /\ sreq[t].existing # NoMsg
    /\ sreq[t].resp.kind = "ok"
    /\ sreq[t].resp.user_message = sreq[t].existing

\* C22: a send answered from deduplication has written no row, has called
\* neither transcription nor generation, has published no typing event and
\* has spawned no continuation; its answer is 200 with two rows of the table.
C22_DedupHitHasNoEffects ==
    \A t \in SendTasks :
        DedupHit(t) =>
            /\ sreq[t].wrote = 0
            /\ sreq[t].user_msg = NoMsg
            /\ sreq[t].did = {"conv_lookup"}
            /\ sreq[t].gen = "none"
            /\ sreq[t].typing = <<>>
            /\ sreq[t].resp.status = 200
            /\ sreq[t].resp.assistant_message \in MsgIds
            /\ \A b \in bg : b.msg # NoMsg /\ b.msg \in MsgIds

\* a retry was answered from deduplication while the table holds exactly
\* the pair of the first send and the two continuations of that send
C22_Witness ==
    \E t \in SendTasks :
        /\ DedupHit(t) /\ IsRetry(t)
        /\ Len(messages) = 2 /\ sends = 2
        /\ Cardinality(bg) = 2

\* C23: the assistant message of an answer from deduplication is the row
\* that was written by the send which wrote the matched user row.
C23_DedupReturnsOwnReply ==
    \A t \in SendTasks :
        DedupHit(t) =>
            messages[sreq[t].resp.assistant_message].reply_to = sreq[t].resp.user_message

\* the rows of the conversation of task t other than its own user row
OtherRows(t) ==
    {i \in MsgIds : messages[i].conv = sreq[t].conv /\ i # sreq[t].user_msg}

\* the step is the context fetch of task t, with the call of generation
FetchesContext(t) == sreq[t].pc = "context" /\ sreq'[t].pc = "generate"

\* C24: the history handed to generation holds at most 10 rows, none of them
\* the user row this send has just written, all of the send's conversation;
\* it holds the most recent other rows at the time of the fetch (no row left
\* out is newer than a row kept, and rows are left out only when 10 are
\* kept), oldest first.
C24_ContextIsRecentAndOrdered ==
    [][ \A t \in SendTasks :
          FetchesContext(t) =>
              LET h == sreq'[t].history
              IN  /\ Len(h) <= HistoryLimit
                  /\ sreq[t].user_msg \notin Range(h)
                  /\ Range(h) \subseteq OtherRows(t)
                  /\ \A p \in 1..Len(h) : \A q \in 1..Len(h) : p < q => h[p] < h[q]
                  /\ \A i \in OtherRows(t) \ Range(h) :
                        /\ Len(h) = HistoryLimit
                        /\ \A j \in Range(h) : i < j ]_vars

\* the typing events of the send of task t so far, against where it stands:
\* none before generation is called, the start alone while the backend
\* works, start and stop once the backend has answered or failed
TypingBrackets(t) ==
    IF sreq[t].pc = "generate"
    THEN sreq[t].typing = <<TRUE>> /\ sreq[t].gen = "none"
    ELSE IF sreq[t].gen # "none"
    THEN sreq[t].typing = <<TRUE, FALSE>>
    ELSE sreq[t].typing = <<>>

C26_MemoriesOnlyGrow ==
    [][ \A c \in ConvIds : convMemories[c] \subseteq convMemories'[c] ]_vars

\* the step ends a publish whose retain left the list of the user empty
IsPublishRemove == \E p \in PubTasks : pstate[p].pc = "removing" /\ pstate'[p].pc = "idle"

\* C27: a publish to user u always comes back to its caller.  Of the
\* connections registered for u, those whose receiver is gone are
\* unregistered by the publish and those whose send succeeded stay
\* registered, each with the event in its channel; connections of other
\* users stay as they are; and the removal of the emptied user key
\* unregisters no connection that got the event.
C27_PublishPrunesOnlyFailed ==
    [][ /\ IsPublish =>
              LET u == published'[Len(published')]
                  m == Len(published')
              IN  /\ \A c \in ConnIds :
                        (connections[u].present /\ c \in Range(ConnsOf(u))) =>
                            IF rxOpen[c]
                            THEN Registered(c)' /\ inbox'[c] = Append(inbox[c], m)
                            ELSE ~Registered(c)' /\ inbox'[c] = inbox[c]
                  /\ \A d \in ConnIds :
                        (Registered(d) /\ cuser[d] # u) => Registered(d)'
                  /\ \A p \in PubTasks :
                        pstate'[p] # pstate[p] => pstate'[p].pc = "removing"
        /\ IsPublishRemove =>
              /\ \A c \in ConnIds :
                    (Registered(c) /\ ~Registered(c)') =>
                        Len(published) \notin Range(inbox[c])
              /\ \A p \in PubTasks : pstate'[p].pc = "idle"
      ]_vars

\* after a publish to a user with two connections, the one whose session
\* had ended without disconnect is unregistered and the other, registered,
\* has the event
C27_Witness ==
    \E c \in ConnIds, d \in ConnIds :
        /\ cuser[c] = cuser[d] /\ c # d
        /\ cstate[c] = "aborted" /\ ~Registered(c) /\ inbox[c] = <<>>
        /\ cstate[d] = "live" /\ Registered(d) /\ inbox[d] = <<1>>
        /\ published = <<cuser[c]>>

TranscriptionUnavailable == "[Audio message - transcription unavailable]"

\* transcription has failed in the send of task t
TranscriptionFailed(t) ==
    "transcribe" \in sreq[t].did /\ sreq[t].content = TranscriptionUnavailable

\* C28: a send whose transcription failed goes on: once its user row is
\* written that row holds the placeholder, generation is called with the
\* placeholder, and the send ends with a message pair.
C28_TranscriptionFailureNotFatal ==
    \A t \in SendTasks :
        (TranscriptionFailed(t) /\ sreq[t].user_msg # NoMsg) =>
            /\ sreq[t].user_msg \in MsgIds
            /\ messages[sreq[t].user_msg].content = TranscriptionUnavailable
            /\ messages[sreq[t].user_msg].role = "user"
            /\ SendDone(t) =>
                  /\ sreq[t].resp.kind = "ok"
                  /\ sreq[t].gen # "none"
                  /\ sreq[t].resp.user_message = sreq[t].user_msg
                  /\ sreq[t].resp.assistant_message \in MsgIds

\* C29: the first step of disconnect, taken by a session when its loop has
\* ended, takes that session's own connection out of the registry and
\* leaves the connection's user as it was; a session whose loop has ended
\* has no connection of its own in the registry; and its disconnect comes to
\* an end.
C29_EndedSessionUnregistered ==
    /\ [][ \A c \in ConnIds :
             (cstate[c] = "live" /\ IsDisconnectOf(c)) =>
                 /\ ~Registered(c)'
                 /\ cuser'[c] = cuser[c] /\ rxOpen'[c] = rxOpen[c] ]_vars
    /\ [](\A c \in ConnIds : cstate[c] \in {"removing", "closed"} => ~Registered(c))
    /\ \A c \in ConnIds : (cstate[c] = "removing") ~> (cstate[c] = "closed")

\* a session has ended and is unregistered while another session of the
\* same user is still registered
C29_Witness ==
    \E c \in ConnIds, d \in ConnIds :
        /\ c # d /\ cuser[c] = cuser[d]
        /\ cstate[c] = "closed" /\ ~Registered(c)
        /\ cstate[d] = "live" /\ Registered(d)

\* C30: a request that is sent again for the same identifier, as many seconds
\* after a denial as the denial's retryAfterSeconds says and with no other
\* request of that identifier in between, is not denied on the window the
\* first denial named.
C30_RetryHintSufficient ==
    \A t \in Tasks :
        (req[t].retry # "none" /\ req[t].resp.kind = "deny") =>
            req[t].resp.limit_type # req[t].retry

\* a request denied on the hour window was sent again and admitted
C30_Witness ==
    \E t \in Tasks :
        req[t].retry = "per_hour" /\ req[t].resp.kind \in {"admitted", "allow"}

====
